---- MODULE Spec2Model ----
(***************************************************************************)
(* andesOBIS: derivation of Darwin Core / OBIS Event and Occurrence        *)
(* records from Andes survey data (cruise -> sets -> catches).             *)
(*                                                                         *)
(* Three specifications share the variables below:                         *)
(*   Spec        the orchestration run, views.make_obis_events             *)
(*   SpecBuilder direct calls of the builders of views.py / models.py      *)
(*   SpecFormat  the datetime formatter and the Event date/time properties *)
(*                                                                         *)
(* Conventions.  A Python value that may be None is a sequence of length   *)
(* at most one: None is << >> and Some(x) is << x >>.  The result of a     *)
(* call is a record [exc |-> "none", value |-> v] (normal return) or       *)
(* [exc |-> "<ExceptionClass>"] (the call raised).  Strings produced by    *)
(* strftime are sequences of one-character strings, so that their shape    *)
(* can be inspected; identifiers are TLA+ strings.                         *)
(***************************************************************************)
EXTENDS Integers, Sequences, FiniteSets, TLC

VARIABLES
    cruise,       \* what get_active_cruise() yields: None or Some(cruise)
    sets,         \* Set.objects.filter(cruise=cruise), in iteration order
    pc,           \* position of make_obis_events
    setIdx,       \* number of sets the outer loop has taken
    catchIdx,     \* catch_idx of the next catch of the inner loop
    parent,       \* local `parent` of make_obis_events (None before it is bound)
    event,        \* local `event` of make_obis_events (None outside a set)
    events,       \* the Event table of the OBIS database
    occurrences,  \* the Occurrence table of the OBIS database
    error,        \* the exception that escaped make_obis_events, "none" if none
    input,        \* the arguments drawn for a direct call (SpecBuilder, SpecFormat)
    last,         \* the last derivation or call: its name, arguments and result
    firstRun      \* the tables as an earlier run of the command left them (SpecRerun)

vars == <<cruise, sets, pc, setIdx, catchIdx, parent, event, events,
          occurrences, error, input, last, firstRun>>

-----------------------------------------------------------------------------
(* Python values *)

None == << >>

Some(x) == << x >>

Return(v) == [exc |-> "none", value |-> v]

Raise(e) == [exc |-> e]

NoCall == [op |-> "none"]

NoInput == [kind |-> "none"]

-----------------------------------------------------------------------------
(* Text produced by strftime: sequences of characters *)

DigitChars == <<"0", "1", "2", "3", "4", "5", "6", "7", "8", "9">>

Digit(n) == DigitChars[n + 1]

\* the decimal digits of n, zero-padded to width w (n < 10^w)
RECURSIVE Pad(_, _)
Pad(n, w) == IF w = 0 THEN << >> ELSE Pad(n \div 10, w - 1) \o <<Digit(n % 10)>>

Abs(n) == IF n < 0 THEN -n ELSE n

-----------------------------------------------------------------------------
(* datetime: aware instants, pytz zones, astimezone and strftime *)

\* an aware datetime: civil fields plus the UTC offset in minutes
Instant(y, mo, d, h, mi, s, us, off) ==
    [year |-> y, month |-> mo, day |-> d, hour |-> h, minute |-> mi,
     second |-> s, microsecond |-> us, utcoffset |-> off]

IsLeap(y) == (y % 4 = 0 /\ y % 100 # 0) \/ y % 400 = 0

DaysInMonth(y, mo) ==
    IF mo = 2 THEN (IF IsLeap(y) THEN 29 ELSE 28)
    ELSE IF mo \in {4, 6, 9, 11} THEN 30 ELSE 31

\* the civil date d days later, for d in {-1, 0, 1}
ShiftDate(dt, d) ==
    IF d = 1 THEN
        IF dt.day < DaysInMonth(dt.year, dt.month)
            THEN [dt EXCEPT !.day = dt.day + 1]
        ELSE IF dt.month < 12
            THEN [dt EXCEPT !.day = 1, !.month = dt.month + 1]
        ELSE [dt EXCEPT !.day = 1, !.month = 1, !.year = dt.year + 1]
    ELSE IF d = -1 THEN
        IF dt.day > 1
            THEN [dt EXCEPT !.day = dt.day - 1]
        ELSE IF dt.month > 1
            THEN [dt EXCEPT !.day = DaysInMonth(dt.year, dt.month - 1),
                            !.month = dt.month - 1]
        ELSE [dt EXCEPT !.day = 31, !.month = 12, !.year = dt.year - 1]
    ELSE dt

\* pytz.timezone(name).utcoffset, in minutes, for the zones of the model
\* (zones without daylight saving time, so the offset does not depend on dt)
ZoneOffset(name) ==
    CASE name = "UTC" -> 0
      [] name = "Etc/GMT+4" -> -240
      [] name = "Asia/Kolkata" -> 330

\* dt.astimezone(pytz.timezone(name)): the same instant on the zone's clock
astimezone(dt, name) ==
    LET off   == ZoneOffset(name)
        total == dt.hour * 60 + dt.minute - dt.utcoffset + off
        shift == IF total < 0 THEN -1 ELSE IF total >= 1440 THEN 1 ELSE 0
        tod   == total - shift * 1440
        moved == ShiftDate(dt, shift)
    IN  [moved EXCEPT !.hour = tod \div 60, !.minute = tod % 60,
                      !.utcoffset = off]

\* strftime directives
fmt_Y(dt) == Pad(dt.year, 4)
fmt_m(dt) == Pad(dt.month, 2)
fmt_d(dt) == Pad(dt.day, 2)
fmt_H(dt) == Pad(dt.hour, 2)
fmt_M(dt) == Pad(dt.minute, 2)
fmt_S(dt) == Pad(dt.second, 2)
fmt_f(dt) == Pad(dt.microsecond, 6)
fmt_z(dt) ==
    <<IF dt.utcoffset < 0 THEN "-" ELSE "+">>
        \o Pad(Abs(dt.utcoffset) \div 60, 2) \o Pad(Abs(dt.utcoffset) % 60, 2)

fmt_date(dt) == fmt_Y(dt) \o <<"-">> \o fmt_m(dt) \o <<"-">> \o fmt_d(dt)

\* `if tz:` is false for None and for the empty string
Truthy(opt) == opt # None /\ opt[1] # ""

\* lines 28-31 and 51-54: dt is an Option; None has no astimezone/strftime
in_user_timezone(dt, tz) ==
    IF Truthy(tz) THEN astimezone(dt[1], tz[1]) ELSE dt[1]

\* a plausible slip: precision 4 rendered without the UTC offset, and an
\* unknown precision answered with an empty string instead of an error
obis_datetime_str_mutant(dt, precision, tz) ==
    IF dt = None /\ (Truthy(tz) \/ precision \in 1..7) THEN Raise("AttributeError")
    ELSE IF dt = None THEN Return(<< >>)
    ELSE LET d == in_user_timezone(dt, tz) IN
        CASE precision = 1 -> Return(fmt_Y(d))
          [] precision = 2 -> Return(fmt_Y(d) \o <<"-">> \o fmt_m(d))
          [] precision = 3 -> Return(fmt_date(d))
          [] precision = 4 -> Return(fmt_date(d) \o <<"T">> \o fmt_H(d))
          [] precision = 5 ->
                Return(fmt_date(d) \o <<"T">> \o fmt_H(d) \o <<":">> \o fmt_M(d)
                       \o fmt_z(d))
          [] precision = 6 ->
                Return(fmt_date(d) \o <<"T">> \o fmt_H(d) \o <<":">> \o fmt_M(d)
                       \o <<":">> \o fmt_S(d) \o fmt_z(d))
          [] precision = 7 ->
                Return(fmt_date(d) \o <<"T">> \o fmt_H(d) \o <<":">> \o fmt_M(d)
                       \o <<":">> \o fmt_S(d) \o <<".">> \o fmt_f(d) \o fmt_z(d))
          [] OTHER -> Return(<< >>)

\* OBISTable.obis_datetime_str
\* (dt = None fails on .astimezone when tz is set, else on .strftime in the
\* branch of a known precision, else the ValueError of line 47 is reached)
obis_datetime_str(dt, precision, tz) ==
    IF dt = None /\ (Truthy(tz) \/ precision \in 1..7) THEN Raise("AttributeError")
    ELSE IF dt = None THEN Raise("ValueError")
    ELSE LET d == in_user_timezone(dt, tz) IN
        CASE precision = 1 -> Return(fmt_Y(d))
          [] precision = 2 -> Return(fmt_Y(d) \o <<"-">> \o fmt_m(d))
          [] precision = 3 -> Return(fmt_date(d))
          [] precision = 4 -> Return(fmt_date(d) \o <<"T">> \o fmt_H(d) \o fmt_z(d))
          [] precision = 5 ->
                Return(fmt_date(d) \o <<"T">> \o fmt_H(d) \o <<":">> \o fmt_M(d)
                       \o fmt_z(d))
          [] precision = 6 ->
                Return(fmt_date(d) \o <<"T">> \o fmt_H(d) \o <<":">> \o fmt_M(d)
                       \o <<":">> \o fmt_S(d) \o fmt_z(d))
          [] precision = 7 ->
                Return(fmt_date(d) \o <<"T">> \o fmt_H(d) \o <<":">> \o fmt_M(d)
                       \o <<":">> \o fmt_S(d) \o <<".">> \o fmt_f(d) \o fmt_z(d))
          [] OTHER -> Raise("ValueError")

\* OBISTable.obis_time_str
obis_time_str(dt, precision, tz) ==
    IF dt = None /\ (Truthy(tz) \/ precision \in 4..7) THEN Raise("AttributeError")
    ELSE IF dt = None THEN Raise("ValueError")
    ELSE LET d == in_user_timezone(dt, tz) IN
        CASE precision = 4 -> Return(fmt_H(d) \o fmt_z(d))
          [] precision = 5 -> Return(fmt_H(d) \o <<":">> \o fmt_M(d) \o fmt_z(d))
          [] precision = 6 ->
                Return(fmt_H(d) \o <<":">> \o fmt_M(d) \o <<":">> \o fmt_S(d)
                       \o fmt_z(d))
          [] precision = 7 ->
                Return(fmt_H(d) \o <<":">> \o fmt_M(d) \o <<":">> \o fmt_S(d)
                       \o <<".">> \o fmt_f(d) \o fmt_z(d))
          [] OTHER -> Raise("ValueError")

-----------------------------------------------------------------------------
(* The Event model (models.py) *)

\* default of _event_start_dt_p and _event_end_dt_p: "second"
DefaultPrecision == 6

\* andes_object: the source entity an Event/Occurrence was initialised from.
\* It is a class attribute, None unless an _init_from_* method sets it.
NoObject == [kind |-> "None", display_tz |-> None]

CruiseObject(c) == [kind |-> "Cruise", display_tz |-> c.display_tz]

SetObject == [kind |-> "Set", display_tz |-> None]

\* the fields of a new Event, with the defaults the model declares
EventDefaults ==
    [eventID |-> "", _parentEvent |-> None, eventType |-> None,
     _event_start_dt |-> None, _event_start_dt_p |-> DefaultPrecision,
     _event_end_dt |-> None, _event_end_dt_p |-> DefaultPrecision,
     decimalLatitude |-> None, decimalLongitude |-> None,
     coordinateUncertaintyInMeters |-> None,
     maximumDepthInMeters |-> None, minimumDepthInMeters |-> None,
     andes_object |-> NoObject]

\* the read-only properties of Event (declared with @property, no setter)
EventProperties ==
    {"parentEventID", "eventDate", "geodeticDatum", "eventTime", "year",
     "footprintSRS", "timezone"}

\* a constructor that drops the reference to the parent
Event_init_mutant(kwargs) ==
    Return([f \in DOMAIN EventDefaults |->
               IF f \in DOMAIN kwargs \ {"_parentEvent"} THEN kwargs[f]
               ELSE EventDefaults[f]])

\* Event(**kwargs): django Model.__init__ assigns each keyword with setattr;
\* a keyword naming a property without setter cannot be assigned, a keyword
\* that is neither a field nor a property is rejected.
Event_init(kwargs) ==
    IF DOMAIN kwargs \cap EventProperties # {} THEN Raise("AttributeError")
    ELSE IF ~(DOMAIN kwargs \subseteq DOMAIN EventDefaults) THEN Raise("TypeError")
    ELSE Return([f \in DOMAIN EventDefaults |->
                    IF f \in DOMAIN kwargs THEN kwargs[f] ELSE EventDefaults[f]])

\* Event.timezone: the cruise's display_tz if the Event was initialised from
\* a cruise, else the parent's timezone; a missing parent is None.timezone.
\* The handler of RecursionError (which raises NoParentCruiseError) runs for
\* a cyclic parent chain only; an Event here holds its parent by value, so
\* every chain is finite.
RECURSIVE timezone(_)
timezone(e) ==
    IF e.andes_object.kind = "Cruise" THEN Return(e.andes_object.display_tz)
    ELSE IF e._parentEvent = None THEN Raise("AttributeError")
    ELSE timezone(e._parentEvent[1])

\* Event.eventTime
eventTime(e) ==
    IF e._event_start_dt # None /\ e._event_end_dt # None THEN
        LET tz == timezone(e) IN
        IF tz.exc # "none" THEN Raise(tz.exc)
        ELSE LET a == obis_time_str(e._event_start_dt, e._event_start_dt_p, tz.value)
                 b == obis_time_str(e._event_end_dt, e._event_end_dt_p, tz.value)
             IN  IF a.exc # "none" THEN Raise(a.exc)
                 ELSE IF b.exc # "none" THEN Raise(b.exc)
                 ELSE Return(Some(a.value \o <<"/">> \o b.value))
    ELSE IF e._event_start_dt # None THEN
        LET tz == timezone(e) IN
        IF tz.exc # "none" THEN Raise(tz.exc)
        ELSE LET a == obis_time_str(e._event_start_dt, e._event_start_dt_p, tz.value)
             IN  IF a.exc # "none" THEN Raise(a.exc) ELSE Return(Some(a.value))
    ELSE Return(None)

\* Event.eventDate: the arguments of each obis_datetime_str call, the
\* timezone among them, are evaluated before the call
eventDate(e) ==
    IF e._event_start_dt # None /\ e._event_end_dt # None THEN
        LET tz == timezone(e) IN
        IF tz.exc # "none" THEN Raise(tz.exc)
        ELSE LET a == obis_datetime_str(e._event_start_dt, e._event_start_dt_p,
                                        tz.value)
                 b == obis_datetime_str(e._event_end_dt, e._event_end_dt_p,
                                        tz.value)
             IN  IF a.exc # "none" THEN Raise(a.exc)
                 ELSE IF b.exc # "none" THEN Raise(b.exc)
                 ELSE Return(a.value \o <<"/">> \o b.value)
    ELSE
        LET tz == timezone(e) IN
        IF tz.exc # "none" THEN Raise(tz.exc)
        ELSE obis_datetime_str(e._event_start_dt, e._event_start_dt_p, tz.value)

-----------------------------------------------------------------------------
(* The Occurrence model (models.py) *)

CatchObject == [kind |-> "Catch", display_tz |-> None]

\* the fields of a new Occurrence, with the defaults the model declares
OccurrenceDefaults ==
    [occurenceID |-> "", _event |-> None, verbatimIdentification |-> "",
     scientificName |-> "", scientificNameID |-> "",
     occurrenceRemarks |-> None, associatedMedia |-> None,
     andes_object |-> NoObject]

\* the read-only properties of Occurrence (declared with @property, no setter;
\* the CharField declarations of basisOfRecord and occurrenceStatus are
\* commented out)
OccurrenceProperties ==
    {"eventID", "basisOfRecord", "occurrenceStatus", "taxonRemarks",
     "identificationRemarks"}

\* a constructor that would accept every keyword as if it were a field
Occurrence_init_mutant(kwargs) ==
    Return([f \in DOMAIN OccurrenceDefaults |->
               IF f \in DOMAIN kwargs THEN kwargs[f] ELSE OccurrenceDefaults[f]])

\* Occurrence(**kwargs): as Event_init.  With django 4.1 and later the failed
\* setattr surfaces as AttributeError; earlier versions turn it into a
\* TypeError.  No caller in the repository handles either.
Occurrence_init(kwargs) ==
    IF DOMAIN kwargs \cap OccurrenceProperties # {} THEN Raise("AttributeError")
    ELSE IF ~(DOMAIN kwargs \subseteq DOMAIN OccurrenceDefaults)
        THEN Raise("TypeError")
    ELSE Return([f \in DOMAIN OccurrenceDefaults |->
                    IF f \in DOMAIN kwargs THEN kwargs[f]
                    ELSE OccurrenceDefaults[f]])

-----------------------------------------------------------------------------
(* Persistence: Model.save() inserts the row or replaces the row that has   *)
(* the same primary key                                                     *)

\* the result of a builder that writes to a table: the table afterwards
ReturnDb(v, db) == [exc |-> "none", value |-> v, db |-> db]

RaiseDb(e, db) == [exc |-> e, db |-> db]

\* a save that is lost
save_event_mutant(db, e) == db

\* a save that never replaces a row: a taken key gets a numbered copy
save_event_mutant_insert(db, e) ==
    IF \E x \in db : x.eventID = e.eventID
      THEN db \cup {[e EXCEPT !.eventID = @ \o "#" \o ToString(Cardinality(db))]}
      ELSE db \cup {e}

\* e.save() for an Event (primary key eventID)
save_event(db, e) == {x \in db : x.eventID # e.eventID} \cup {e}

\* o.save() for an Occurrence (primary key occurenceID)
save_occurrence(db, o) == {x \in db : x.occurenceID # o.occurenceID} \cup {o}

-----------------------------------------------------------------------------
(* Source entities (shared_models, ecosystem_survey): read-only inputs *)

\* the precision code "day" that the cruise builders assign
DayPrecision == 3

\* a filter that forgets the is_fishing flag
fishing_operations_mutant(my_set) == my_set.operations

\* my_set.operations.filter(is_fishing=True); an operation is its flag
fishing_operations(my_set) == SelectSeq(my_set.operations, LAMBDA o : o)

\* f"{catch_idx:03}"
Format03(n) ==
    IF n < 10 THEN "00" \o ToString(n)
    ELSE IF n < 100 THEN "0" \o ToString(n)
    ELSE ToString(n)

\* the "meaningless catch" condition of both Occurrence builders.
\* specimens, catch_images: the len() of the collection;
\* baskets_with_children: the size of baskets.filter(children__isnull=False),
\* a queryset, which is true when it is not empty
is_meaningless(catch) ==
    /\ ~catch.has_child_baskets
    /\ catch.extrapolated_specimen_count = None
    /\ catch.relative_abundance_category = None
    /\ catch.total_basket_weight = 0
    /\ catch.unmeasured_specimen_count = 0
    /\ catch.specimens = 0
    /\ catch.catch_images = 0
    /\ catch.baskets_with_children # 0

-----------------------------------------------------------------------------
(* Geospatial derivation.  Numbers are fixed-point integers: a coordinate   *)
(* of a source entity counts 1e-7 degree, a distance 1e-7 nautical mile.    *)
(* A derived latitude or longitude is held doubled (it counts 0.5e-7        *)
(* degree), so that the half of an odd sum is a whole number; a derived     *)
(* uncertainty counts 0.001 m, the third decimal place it is rounded to.    *)

\* {"lat": ..., "lng": ...}
Point(lat, lng) == [lat |-> lat, lng |-> lng]

\* a midpoint with the factor on the first term only: 0.5 * a + b
half_sum_mutant(a, b) == a + 2 * b

\* 0.5 * (a + b), doubled
half_sum(a, b) == a + b

\* calc_nautical_dist(p0, p1) of shared_models.utils, a collaborator outside
\* the repository: what it answers for the two corner points of an entity is
\* an input, held with the entity as corner_dist
calc_nautical_dist(p0, p1, src) == src.corner_dist

\* a rounding that cuts the digits off
round_mutant(n, q) == n \div q

\* round(): n / q to the nearest whole number, a tie to the even one (n >= 0)
round(n, q) ==
    LET f == n \div q
        r == n % q
    IN  IF 2 * r < q THEN f
        ELSE IF 2 * r > q THEN f + 1
        ELSE IF f % 2 = 0 THEN f ELSE f + 1

\* `d if d else None` for a depth in metres: a conditional expression on
\* the truth value of d, which is false for None and for 0
depth_if_truthy(d) == IF d # None /\ d[1] # 0 THEN d ELSE None

\* round(1852 * 0.5 * calc_nautical_dist(p0, p1), 3): 926 m for a nautical
\* mile of half distance, that is 926 * d in 1e-7 m, rounded to 1e-3 m
uncertainty_in_meters(p0, p1, src) ==
    round(926 * calc_nautical_dist(p0, p1, src), 10000)

-----------------------------------------------------------------------------
(* The builders of views.py.  Each takes the table it writes to and returns *)
(* the table afterwards with its result.                                    *)

\* the failed derivation replaced by a root Event of the empty cruise
make_event_from_cruise_mutant(cruise_, db) ==
    LET e == Event_init([eventID |-> "", _event_start_dt_p |-> DayPrecision,
                         eventType |-> Some("Project")])
    IN  IF cruise_ = None
            THEN ReturnDb(e.value, save_event(db, e.value))
        ELSE RaiseDb("RuntimeError", db)

\* make_event_from_cruise(cruise): the root Event
make_event_from_cruise(cruise_, db) ==
    IF cruise_ = None THEN RaiseDb("RuntimeError", db)
    ELSE LET c == cruise_[1]
             e == Event_init([eventID |-> c.mission_number,
                              _event_start_dt |-> c.start_date,
                              _event_start_dt_p |-> DayPrecision,
                              decimalLatitude |->
                                  Some(half_sum(c.max_lat, c.min_lat)),
                              decimalLongitude |->
                                  Some(half_sum(c.max_lng, c.min_lng)),
                              coordinateUncertaintyInMeters |->
                                  Some(uncertainty_in_meters(
                                          Point(c.max_lat, c.max_lng),
                                          Point(c.min_lat, c.min_lng), c)),
                              eventType |-> Some("Project")])
         IN  IF e.exc # "none" THEN RaiseDb(e.exc, db)
             ELSE ReturnDb(e.value, save_event(db, e.value))

\* an eventID that leaves out the parent's
child_event_id_mutant(parent_, my_set) == "Set" \o ToString(my_set.set_number)

\* an eventID that leaves out the set number
child_event_id_mutant_no_set(parent_, my_set) == parent_.eventID \o "-Set"

\* f"{parent.eventID}-Set{my_set.set_number}"
child_event_id(parent_, my_set) ==
    parent_.eventID \o "-Set" \o ToString(my_set.set_number)

\* a builder that saves the Event before it checks the fishing operations
make_event_from_fishing_set_mutant(my_set_, parent_, db) ==
    IF my_set_ = None THEN RaiseDb("RuntimeError", db)
    ELSE LET my_set == my_set_[1]
             e == Event_init([eventID |-> child_event_id(parent_, my_set),
                              _parentEvent |-> Some(parent_),
                              eventType |-> Some("SiteVisit"),
                              _event_start_dt |-> my_set.start_date,
                              _event_end_dt |-> my_set.end_date,
                              decimalLatitude |->
                                  Some(half_sum(my_set.start_latitude,
                                                my_set.end_latitude)),
                              decimalLongitude |->
                                  Some(half_sum(my_set.start_longitude,
                                                my_set.end_longitude)),
                              coordinateUncertaintyInMeters |->
                                  Some(uncertainty_in_meters(
                                          Point(my_set.start_latitude,
                                                my_set.start_longitude),
                                          Point(my_set.end_latitude,
                                                my_set.end_longitude),
                                          my_set)),
                              maximumDepthInMeters |->
                                  depth_if_truthy(my_set.max_depth_m),
                              minimumDepthInMeters |->
                                  depth_if_truthy(my_set.min_depth_m)])
         IN  IF Len(fishing_operations(my_set)) = 0
                THEN RaiseDb("ValueError", save_event(db, e.value))
             ELSE ReturnDb(e.value, save_event(db, e.value))

\* make_event_from_fishing_set(my_set, parent): the child Event of a set
make_event_from_fishing_set(my_set_, parent_, db) ==
    IF my_set_ = None THEN RaiseDb("RuntimeError", db)
    ELSE IF Len(fishing_operations(my_set_[1])) = 0 THEN RaiseDb("ValueError", db)
    ELSE LET my_set == my_set_[1]
             e == Event_init([eventID |-> child_event_id(parent_, my_set),
                              _parentEvent |-> Some(parent_),
                              eventType |-> Some("SiteVisit"),
                              _event_start_dt |-> my_set.start_date,
                              _event_end_dt |-> my_set.end_date,
                              decimalLatitude |->
                                  Some(half_sum(my_set.start_latitude,
                                                my_set.end_latitude)),
                              decimalLongitude |->
                                  Some(half_sum(my_set.start_longitude,
                                                my_set.end_longitude)),
                              coordinateUncertaintyInMeters |->
                                  Some(uncertainty_in_meters(
                                          Point(my_set.start_latitude,
                                                my_set.start_longitude),
                                          Point(my_set.end_latitude,
                                                my_set.end_longitude),
                                          my_set)),
                              maximumDepthInMeters |->
                                  depth_if_truthy(my_set.max_depth_m),
                              minimumDepthInMeters |->
                                  depth_if_truthy(my_set.min_depth_m)])
         IN  IF e.exc # "none" THEN RaiseDb(e.exc, db)
             ELSE ReturnDb(e.value, save_event(db, e.value))

\* make_event_from_mixed_catch(catch, parent): a docstring and no body
make_event_from_mixed_catch(catch, parent_) == Return(None)

\* a builder that lets a mixed catch through
make_occurence_from_catch_mutant(catch, catch_idx, event_, db) ==
    IF catch.species.aphia_id = None THEN RaiseDb("InvalidSpecies", db)
    ELSE LET o == Occurrence_init_mutant(
                     [occurenceID |-> event_.eventID \o "_" \o Format03(catch_idx),
                      _event |-> Some(event_),
                      verbatimIdentification |-> catch.species.scientific_name,
                      scientificName |-> catch.species.scientific_name,
                      occurrenceRemarks |-> catch.notes])
         IN  ReturnDb(o.value, save_occurrence(db, o.value))

\* make_occurence_from_catch(catch, catch_idx, event): the Occurrence of a catch
make_occurence_from_catch(catch, catch_idx, event_, db) ==
    IF catch.species.is_mixed_catch THEN RaiseDb("InvalidSpecies", db)
    ELSE IF catch.species.aphia_id = None THEN RaiseDb("InvalidSpecies", db)
    ELSE IF is_meaningless(catch) THEN RaiseDb("NoCatchData", db)
    ELSE LET o == Occurrence_init(
                     [occurenceID |-> event_.eventID \o "_" \o Format03(catch_idx),
                      _event |-> Some(event_),
                      verbatimIdentification |-> catch.species.scientific_name,
                      scientificName |-> catch.species.scientific_name,
                      scientificNameID |->
                          "urn:lsid:marinespecies.org:taxname:"
                              \o ToString(catch.species.aphia_id[1]),
                      basisOfRecord |-> "HumanObservation",
                      occurrenceStatus |-> "Present",
                      associatedMedia |-> None,
                      occurrenceRemarks |-> catch.notes])
         IN  IF o.exc # "none" THEN RaiseDb(o.exc, db)
             ELSE ReturnDb(o.value, save_occurrence(db, o.value))

\* the body of the inner loop of make_obis_events for one catch: a mixed
\* catch is passed over, InvalidSpecies is caught, anything else escapes
loop_body(catch, catch_idx, event_, db) ==
    IF catch.species.is_mixed_catch THEN ReturnDb(None, db)
    ELSE LET r == make_occurence_from_catch(catch, catch_idx, event_, db)
         IN  IF r.exc = "InvalidSpecies" THEN ReturnDb(None, r.db)
             ELSE IF r.exc = "none" THEN ReturnDb(Some(r.value), r.db)
             ELSE r

-----------------------------------------------------------------------------
(* The builders of models.py: methods that fill in the instance `self`.     *)
(* The result is the instance afterwards; nothing is saved.                 *)

\* Event._init_from_cruise
Event_init_from_cruise(self, cruise_) ==
    IF cruise_ = None THEN Raise("RuntimeError")
    ELSE LET c == cruise_[1]
         IN  Return([self EXCEPT
                        !.andes_object = CruiseObject(c),
                        !.eventID = c.mission_number,
                        !._event_start_dt = c.start_date,
                        !._event_start_dt_p = DayPrecision,
                        !._event_end_dt = c.end_date,
                        !._event_end_dt_p = DayPrecision,
                        !.decimalLatitude = Some(half_sum(c.max_lat, c.min_lat)),
                        !.decimalLongitude = Some(half_sum(c.max_lng, c.min_lng)),
                        !.coordinateUncertaintyInMeters =
                            Some(uncertainty_in_meters(
                                    Point(c.max_lat, c.max_lng),
                                    Point(c.min_lat, c.min_lng), c)),
                        !.eventType = Some("Project")])

\* Event._init_from_fishing_set
Event_init_from_fishing_set(self, my_set_) ==
    IF my_set_ = None THEN Raise("RuntimeError")
    ELSE IF Len(fishing_operations(my_set_[1])) = 0 THEN Raise("ValueError")
    ELSE IF self._parentEvent = None THEN Raise("AttributeError")
    ELSE LET my_set == my_set_[1]
         IN  Return([self EXCEPT
                        !.andes_object = SetObject,
                        !._event_start_dt = my_set.start_date,
                        !._event_end_dt = my_set.end_date,
                        !.decimalLatitude =
                            Some(half_sum(my_set.start_latitude,
                                          my_set.end_latitude)),
                        !.decimalLongitude =
                            Some(half_sum(my_set.start_longitude,
                                          my_set.end_longitude)),
                        !.coordinateUncertaintyInMeters =
                            Some(uncertainty_in_meters(
                                    Point(my_set.start_latitude,
                                          my_set.start_longitude),
                                    Point(my_set.end_latitude,
                                          my_set.end_longitude),
                                    my_set)),
                        !.maximumDepthInMeters =
                            depth_if_truthy(my_set.max_depth_m),
                        !.minimumDepthInMeters =
                            depth_if_truthy(my_set.min_depth_m),
                        !.eventID = child_event_id(self._parentEvent[1], my_set),
                        !.eventType = Some("SiteVisit")])

\* Event._init_from_mixed_catch: the sub-sampling Event of a mixed catch
Event_init_from_mixed_catch(self, catch_) ==
    IF catch_ = None THEN Raise("RuntimeError")
    ELSE IF ~catch_[1].species.is_mixed_catch THEN Raise("InvalidSpecies")
    ELSE Raise("NotImplementedError")

\* a builder that looks for catch data before it looks at the species
Occurrence_init_from_catch_mutant(self, catch) ==
    IF is_meaningless(catch) THEN Raise("NoCatchData")
    ELSE IF catch.species.is_mixed_catch THEN Raise("InvalidSpecies")
    ELSE IF catch.species.aphia_id = None THEN Raise("InvalidSpecies")
    ELSE IF self._event = None THEN Raise("AttributeError")
    ELSE Return([self EXCEPT
                    !.andes_object = CatchObject,
                    !.occurenceID =
                        self._event[1].eventID \o "_" \o ToString(catch.id),
                    !.verbatimIdentification = catch.species.scientific_name,
                    !.scientificName = catch.species.scientific_name,
                    !.scientificNameID =
                        "urn:lsid:marinespecies.org:taxname:"
                            \o ToString(catch.species.aphia_id[1]),
                    !.associatedMedia = <<None>>])

\* Occurrence._init_from_catch
Occurrence_init_from_catch(self, catch) ==
    IF catch.species.is_mixed_catch THEN Raise("InvalidSpecies")
    ELSE IF catch.species.aphia_id = None THEN Raise("InvalidSpecies")
    ELSE IF is_meaningless(catch) THEN Raise("NoCatchData")
    ELSE IF self._event = None THEN Raise("AttributeError")
    ELSE Return([self EXCEPT
                    !.andes_object = CatchObject,
                    !.occurenceID =
                        self._event[1].eventID \o "_" \o ToString(catch.id),
                    !.verbatimIdentification = catch.species.scientific_name,
                    !.scientificName = catch.species.scientific_name,
                    !.scientificNameID =
                        "urn:lsid:marinespecies.org:taxname:"
                            \o ToString(catch.species.aphia_id[1]),
                    !.associatedMedia = <<None>>])

-----------------------------------------------------------------------------
(* Input domains *)

\* the most sets a cruise has
MaxSets == 2

\* the most operations a set has
MaxOps == 1

\* the most catches the run takes of one set
MaxCatches == 2

T1 == Instant(2024, 1, 1, 2, 30, 5, 123, 0)

T2 == Instant(2023, 6, 15, 14, 5, 9, 500000, 0)

T3 == Instant(2024, 2, 29, 23, 59, 59, 999999, 0)

T4 == Instant(2023, 12, 31, 20, 0, 0, 0, -240)

Instants == {T1, T2, T3, T4}

TzInputs == {None, Some(""), Some("UTC"), Some("Etc/GMT+4"), Some("Asia/Kolkata")}

Precisions == 0 .. 8

\* latitudes and longitudes, in 1e-7 degree
LatInputs == {450000000, 450000001, -123456789}

LngInputs == {-640000000, -639999999}

PointInputs == {Point(lat, lng) : lat \in LatInputs, lng \in LngInputs}

\* answers of calc_nautical_dist for two distinct points, in 1e-7 nautical
\* mile (0.1852 mm): from a fraction of a millimetre to a cable
DistInputs == {1, 5, 6, 54, 600000}

\* two corner points and the distance the collaborator answers for them:
\* zero for one and the same point, positive for two distinct points
GeoInputs ==
    {[a |-> p, b |-> p, dist |-> 0] : p \in PointInputs}
    \cup {g \in {[a |-> p, b |-> q, dist |-> d] :
                    p \in PointInputs, q \in PointInputs, d \in DistInputs} :
            g.a # g.b}

\* the corners of a bounding box: the maxima are not below the minima
BoxInputs == {g \in GeoInputs : g.a.lat >= g.b.lat /\ g.a.lng >= g.b.lng}

CruiseA ==
    [mission_number |-> "2024001", start_date |-> Some(T2),
     end_date |-> Some(T4), display_tz |-> Some("Etc/GMT+4"),
     max_lat |-> 450000001, max_lng |-> -639999999,
     min_lat |-> 450000000, min_lng |-> -640000000, corner_dist |-> 600000]

CruiseB ==
    [mission_number |-> "IML-2024-01", start_date |-> Some(T1),
     end_date |-> None, display_tz |-> Some("UTC"),
     max_lat |-> -123456789, max_lng |-> -640000000,
     min_lat |-> -123456789, min_lng |-> -640000000, corner_dist |-> 0]

\* cruise c with the bounding box g
WithBox(c, g) ==
    [c EXCEPT !.max_lat = g.a.lat, !.max_lng = g.a.lng,
              !.min_lat = g.b.lat, !.min_lng = g.b.lng, !.corner_dist = g.dist]

\* set s from the start point g.a to the end point g.b
WithTrack(s, g) ==
    [s EXCEPT !.start_latitude = g.a.lat, !.start_longitude = g.a.lng,
              !.end_latitude = g.b.lat, !.end_longitude = g.b.lng,
              !.corner_dist = g.dist]

CruiseInputs == {None, Some(CruiseA), Some(CruiseB)}

SetNumbers == {1, 7, 12}

OperationLists == UNION {[1 .. n -> BOOLEAN] : n \in 0 .. MaxOps}

SetInputs ==
    {[set_number |-> n, operations |-> ops,
      start_date |-> Some(T1), end_date |-> Some(T3),
      start_latitude |-> 450000000, start_longitude |-> -640000000,
      end_latitude |-> 450000001, end_longitude |-> -640000000,
      corner_dist |-> 6, max_depth_m |-> Some(120), min_depth_m |-> Some(0)] :
        n \in SetNumbers, ops \in OperationLists}

\* the sets of a cruise: set numbers are unique within a cruise
SetLists ==
    UNION {{ss \in [1 .. n -> SetInputs] :
                \A i, j \in 1 .. n : i # j => ss[i].set_number # ss[j].set_number} :
           n \in 0 .. MaxSets}

FishingSet ==
    [set_number |-> 7, operations |-> <<TRUE>>,
     start_date |-> Some(T1), end_date |-> Some(T3),
     start_latitude |-> 450000000, start_longitude |-> -640000000,
     end_latitude |-> 450000001, end_longitude |-> -640000000,
     corner_dist |-> 6, max_depth_m |-> Some(120), min_depth_m |-> Some(0)]

\* depths of a set in metres: not recorded, the surface, below the surface
DepthInputs == {None, Some(0), Some(35)}

\* set s with the depths mx and mn
WithDepths(s, mx, mn) == [s EXCEPT !.max_depth_m = mx, !.min_depth_m = mn]

Species(mixed, aphia) ==
    [is_mixed_catch |-> mixed, aphia_id |-> aphia, scientific_name |-> "Gadus morhua"]

\* every combination of the attributes the Occurrence builders read
CatchInputs ==
    {[id |-> 3, species |-> Species(mixed, aphia),
      has_parent_baskets |-> hp, has_child_baskets |-> hc,
      extrapolated_specimen_count |-> ex, relative_abundance_category |-> ra,
      total_basket_weight |-> w, unmeasured_specimen_count |-> u,
      specimens |-> sp, catch_images |-> im, baskets_with_children |-> bc,
      notes |-> Some("trawl 3")] :
        mixed \in BOOLEAN, aphia \in {None, Some(104828)},
        hp \in BOOLEAN, hc \in BOOLEAN,
        ex \in {None, Some(40)}, ra \in {None, Some("abundant")},
        w \in {0, 5}, u \in {0, 2}, sp \in {0, 1}, im \in {0, 1}, bc \in {0, 1}}

\* a catch with data
GoodCatch ==
    [id |-> 3, species |-> Species(FALSE, Some(104828)),
     has_parent_baskets |-> FALSE, has_child_baskets |-> FALSE,
     extrapolated_specimen_count |-> None, relative_abundance_category |-> None,
     total_basket_weight |-> 5, unmeasured_specimen_count |-> 0,
     specimens |-> 1, catch_images |-> 0, baskets_with_children |-> 0,
     notes |-> Some("trawl 3")]

MixedCatch == [GoodCatch EXCEPT !.species = Species(TRUE, None)]

NoAphiaCatch == [GoodCatch EXCEPT !.species = Species(FALSE, None)]

\* a catch without data whose baskets have children
MeaninglessCatch ==
    [GoodCatch EXCEPT !.total_basket_weight = 0, !.specimens = 0,
                      !.baskets_with_children = 1]

\* the catches the run draws from
RunCatches == {GoodCatch, MixedCatch, NoAphiaCatch, MeaninglessCatch}

-----------------------------------------------------------------------------
(* Spec: the orchestration run, views.make_obis_events.                     *)
(* pc = "start"   before line 30                                            *)
(*      "sets"    at the head of the loop over the sets (line 33)           *)
(*      "catches" at the head of the loop over the catches (line 39)        *)
(*      "done"    returned normally                                         *)
(*      "aborted" an exception escaped; `error` names it                    *)
(* The sets of the cruise are fixed by Init; the catches of a set are what  *)
(* Catch.objects.filter(set=set) yields when the run gets there, drawn one  *)
(* at a time.                                                               *)

Init ==
    /\ cruise \in CruiseInputs
    /\ sets \in SetLists
    /\ cruise = None => sets = << >>
    /\ pc = "start"
    /\ setIdx = 0
    /\ catchIdx = 0
    /\ parent = None
    /\ event = None
    /\ events = {}
    /\ occurrences = {}
    /\ error = "none"
    /\ input = NoInput
    /\ last = NoCall
    /\ firstRun = None

\* lines 30-31: the active cruise and its root Event
RootEvent ==
    /\ pc = "start"
    /\ LET r == make_event_from_cruise(cruise, events)
       IN  /\ last' = [op |-> "make_event_from_cruise", out |-> r]
           /\ events' = r.db
           /\ IF r.exc = "none"
                THEN /\ parent' = Some(r.value)
                     /\ pc' = "sets"
                     /\ error' = error
                ELSE /\ parent' = parent
                     /\ pc' = "aborted"
                     /\ error' = r.exc
    /\ UNCHANGED <<firstRun, cruise, sets, setIdx, catchIdx, event, occurrences, input>>

\* lines 33-36: a set without fishing operation is passed over
SkipSet ==
    /\ pc = "sets"
    /\ setIdx < Len(sets)
    /\ Len(fishing_operations(sets[setIdx + 1])) = 0
    /\ setIdx' = setIdx + 1
    /\ last' = [op |-> "skip_set", set_number |-> sets[setIdx + 1].set_number]
    /\ UNCHANGED <<firstRun, cruise, sets, pc, catchIdx, parent, event, events,
                   occurrences, error, input>>

\* line 37: the child Event of the next set
SetEvent ==
    /\ pc = "sets"
    /\ setIdx < Len(sets)
    /\ Len(fishing_operations(sets[setIdx + 1])) # 0
    /\ LET r == make_event_from_fishing_set(Some(sets[setIdx + 1]), parent[1], events)
       IN  /\ last' = [op |-> "make_event_from_fishing_set",
                       set_number |-> sets[setIdx + 1].set_number, out |-> r]
           /\ events' = r.db
           /\ IF r.exc = "none"
                THEN /\ event' = Some(r.value)
                     /\ pc' = "catches"
                     /\ error' = error
                ELSE /\ event' = event
                     /\ pc' = "aborted"
                     /\ error' = r.exc
    /\ setIdx' = setIdx + 1
    /\ catchIdx' = 0
    /\ UNCHANGED <<firstRun, cruise, sets, parent, occurrences, input>>

\* lines 39-50: the next catch of the current set
NextCatch ==
    /\ pc = "catches"
    /\ catchIdx < MaxCatches
    /\ \E catch \in RunCatches :
        LET r == loop_body(catch, catchIdx, event[1], occurrences)
        IN  /\ last' = [op |-> "loop_body", catch |-> catch,
                        catch_idx |-> catchIdx, out |-> r]
            /\ occurrences' = r.db
            /\ IF r.exc = "none"
                 THEN /\ catchIdx' = catchIdx + 1
                      /\ pc' = pc
                      /\ error' = error
                 ELSE /\ catchIdx' = catchIdx
                      /\ pc' = "aborted"
                      /\ error' = r.exc
    /\ UNCHANGED <<firstRun, cruise, sets, setIdx, parent, event, events, input>>

\* line 39: the catches of the current set are exhausted
EndCatches ==
    /\ pc = "catches"
    /\ pc' = "sets"
    /\ last' = [op |-> "end_catches", catches |-> catchIdx]
    /\ UNCHANGED <<firstRun, cruise, sets, setIdx, catchIdx, parent, event, events,
                   occurrences, error, input>>

\* line 33: the sets are exhausted, make_obis_events returns
Finish ==
    /\ pc = "sets"
    /\ setIdx = Len(sets)
    /\ pc' = "done"
    /\ last' = [op |-> "return"]
    /\ UNCHANGED <<firstRun, cruise, sets, setIdx, catchIdx, parent, event, events,
                   occurrences, error, input>>

Next == RootEvent \/ SkipSet \/ SetEvent \/ NextCatch \/ EndCatches \/ Finish

Spec == Init /\ [][Next]_vars

-----------------------------------------------------------------------------
(* SpecRerun: the export command is run, and run again on the same source   *)
(* data.  The catches of every set are fixed by Init (input.catches), so    *)
(* that both runs read the same cruise, sets and catches; the second run    *)
(* starts on the tables as the first one left them.                         *)

\* a set without fishing operation
NoFishingSet == [FishingSet EXCEPT !.set_number = 1, !.operations = <<FALSE>>]

\* the sets of the cruise, in iteration order
RerunSetLists ==
    {<< >>,
     <<FishingSet>>,
     <<NoFishingSet, FishingSet>>,
     <<FishingSet, [FishingSet EXCEPT !.set_number = 12]>>}

\* what Catch.objects.filter(set=set) yields for one set
CatchLists == UNION {[1 .. n -> RunCatches] : n \in 0 .. MaxCatches}

\* the catches of every set of ss (those of a set that is passed over are
\* never read, and left empty)
RerunInputs(ss) ==
    {[kind |-> "rerun", catches |-> cs] :
        cs \in {f \in [1 .. Len(ss) -> CatchLists] :
                  \A i \in 1 .. Len(ss) :
                      Len(fishing_operations(ss[i])) = 0 => f[i] = << >>}}

InitRerun ==
    /\ cruise \in CruiseInputs
    /\ sets \in RerunSetLists
    /\ cruise = None => sets = << >>
    /\ input \in RerunInputs(sets)
    /\ pc = "start"
    /\ setIdx = 0
    /\ catchIdx = 0
    /\ parent = None
    /\ event = None
    /\ events = {}
    /\ occurrences = {}
    /\ error = "none"
    /\ last = NoCall
    /\ firstRun = None

\* lines 39-50: the next catch of the current set
RerunNextCatch ==
    /\ pc = "catches"
    /\ catchIdx < Len(input.catches[setIdx])
    /\ LET catch == input.catches[setIdx][catchIdx + 1]
           r == loop_body(catch, catchIdx, event[1], occurrences)
       IN  /\ last' = [op |-> "loop_body", catch |-> catch,
                       catch_idx |-> catchIdx, out |-> r]
           /\ occurrences' = r.db
           /\ IF r.exc = "none"
                THEN /\ catchIdx' = catchIdx + 1
                     /\ pc' = pc
                     /\ error' = error
                ELSE /\ catchIdx' = catchIdx
                     /\ pc' = "aborted"
                     /\ error' = r.exc
    /\ UNCHANGED <<firstRun, cruise, sets, setIdx, parent, event, events, input>>

\* line 39: the catches of the current set are exhausted
RerunEndCatches ==
    /\ pc = "catches"
    /\ catchIdx = Len(input.catches[setIdx])
    /\ pc' = "sets"
    /\ last' = [op |-> "end_catches", catches |-> catchIdx]
    /\ UNCHANGED <<firstRun, cruise, sets, setIdx, catchIdx, parent, event, events,
                   occurrences, error, input>>

\* the command is invoked again: make_obis_events starts afresh, the tables
\* keep what the first run stored
Restart ==
    /\ pc \in {"done", "aborted"}
    /\ firstRun = None
    /\ firstRun' = Some([events |-> events, occurrences |-> occurrences,
                         error |-> error])
    /\ pc' = "start"
    /\ setIdx' = 0
    /\ catchIdx' = 0
    /\ parent' = None
    /\ event' = None
    /\ error' = "none"
    /\ last' = [op |-> "export_obis"]
    /\ UNCHANGED <<cruise, sets, events, occurrences, input>>

NextRerun ==
    \/ RootEvent \/ SkipSet \/ SetEvent \/ RerunNextCatch \/ RerunEndCatches
    \/ Finish \/ Restart

SpecRerun == InitRerun /\ [][NextRerun]_vars

-----------------------------------------------------------------------------
(* SpecBuilder: direct calls of the builders, on arguments drawn by Init,   *)
(* against the tables as earlier calls left them.                           *)

BuilderInput(c, s, k, i) ==
    [kind |-> "builder", cruise |-> c, my_set |-> s, catch |-> k, catch_idx |-> i]

BuilderInputs ==
    {BuilderInput(c, Some(FishingSet), GoodCatch, 0) : c \in CruiseInputs}
    \cup {BuilderInput(Some(CruiseA), s, GoodCatch, 0) :
            s \in {None} \cup {Some(x) : x \in SetInputs}}
    \cup {BuilderInput(Some(CruiseA), Some(FishingSet), k, i) :
            k \in CatchInputs, i \in {0, 12}}
    \cup {BuilderInput(Some(WithBox(CruiseA, g)), Some(FishingSet), GoodCatch, 0) :
            g \in BoxInputs}
    \cup {BuilderInput(Some(CruiseA), Some(WithTrack(FishingSet, g)), GoodCatch, 0) :
            g \in GeoInputs}
    \cup {BuilderInput(Some(CruiseA), Some(WithDepths(FishingSet, mx, mn)),
                        GoodCatch, 0) : mx \in DepthInputs, mn \in DepthInputs}

InitBuilder ==
    /\ input \in BuilderInputs
    /\ cruise = None
    /\ sets = << >>
    /\ pc = "direct"
    /\ setIdx = 0
    /\ catchIdx = 0
    /\ parent = None
    /\ event = None
    /\ events = {}
    /\ occurrences = {}
    /\ error = "none"
    /\ last = NoCall
    /\ firstRun = None

RunVars == <<cruise, sets, pc, setIdx, catchIdx, parent, event, error, input,
            firstRun>>

\* the Events that have no parent
Roots == {e \in events : e._parentEvent = None}

CallMakeEventFromCruise ==
    /\ input.kind = "builder"
    /\ LET r == make_event_from_cruise(input.cruise, events)
       IN  /\ last' = [op |-> "make_event_from_cruise", out |-> r]
           /\ events' = r.db
    /\ UNCHANGED <<RunVars, occurrences>>

CallMakeEventFromFishingSet ==
    /\ input.kind = "builder"
    /\ \E p \in Roots :
        LET r == make_event_from_fishing_set(input.my_set, p, events)
        IN  /\ last' = [op |-> "make_event_from_fishing_set",
                        parent |-> p.eventID, out |-> r]
            /\ events' = r.db
    /\ UNCHANGED <<RunVars, occurrences>>

CallMakeOccurenceFromCatch ==
    /\ input.kind = "builder"
    /\ \E e \in events :
        LET r == make_occurence_from_catch(input.catch, input.catch_idx, e,
                                           occurrences)
        IN  /\ last' = [op |-> "make_occurence_from_catch",
                        event |-> e.eventID, out |-> r]
            /\ occurrences' = r.db
    /\ UNCHANGED <<RunVars, events>>

CallLoopBody ==
    /\ input.kind = "builder"
    /\ \E e \in events :
        LET r == loop_body(input.catch, input.catch_idx, e, occurrences)
        IN  /\ last' = [op |-> "loop_body", event |-> e.eventID, out |-> r]
            /\ occurrences' = r.db
    /\ UNCHANGED <<RunVars, events>>

CallInitFromCruise ==
    /\ input.kind = "builder"
    /\ last' = [op |-> "_init_from_cruise",
                out |-> Event_init_from_cruise(EventDefaults, input.cruise)]
    /\ UNCHANGED <<RunVars, events, occurrences>>

CallInitFromFishingSet ==
    /\ input.kind = "builder"
    /\ \E p \in Roots :
        last' = [op |-> "_init_from_fishing_set", parent |-> p.eventID,
                 out |-> Event_init_from_fishing_set(
                            [EventDefaults EXCEPT !._parentEvent = Some(p)],
                            input.my_set)]
    /\ UNCHANGED <<RunVars, events, occurrences>>

CallInitFromCatch ==
    /\ input.kind = "builder"
    /\ \E e \in events :
        last' = [op |-> "_init_from_catch", event |-> e.eventID,
                 out |-> Occurrence_init_from_catch(
                            [OccurrenceDefaults EXCEPT !._event = Some(e)],
                            input.catch)]
    /\ UNCHANGED <<RunVars, events, occurrences>>

CallMakeEventFromMixedCatch ==
    /\ input.kind = "builder"
    /\ \E e \in events :
        last' = [op |-> "make_event_from_mixed_catch", parent |-> e.eventID,
                 out |-> make_event_from_mixed_catch(input.catch, e)]
    /\ UNCHANGED <<RunVars, events, occurrences>>

CallInitFromMixedCatch ==
    /\ input.kind = "builder"
    /\ \E e \in events :
        last' = [op |-> "_init_from_mixed_catch", parent |-> e.eventID,
                 out |-> Event_init_from_mixed_catch(
                            [EventDefaults EXCEPT !._parentEvent = Some(e)],
                            Some(input.catch))]
    /\ UNCHANGED <<RunVars, events, occurrences>>

NextBuilder ==
    \/ CallMakeEventFromMixedCatch
    \/ CallInitFromMixedCatch
    \/ CallMakeEventFromCruise
    \/ CallMakeEventFromFishingSet
    \/ CallMakeOccurenceFromCatch
    \/ CallLoopBody
    \/ CallInitFromCruise
    \/ CallInitFromFishingSet
    \/ CallInitFromCatch

SpecBuilder == InitBuilder /\ [][NextBuilder]_vars

-----------------------------------------------------------------------------
(* SpecFormat: the formatter and the Event properties that use it, on       *)
(* arguments drawn by Init.                                                 *)

OptInstants == {None} \cup {Some(t) : t \in Instants}

\* the Events the builders make of the cruises and of a fishing set
RootEvents ==
    {make_event_from_cruise(Some(c), {}).value : c \in {CruiseA, CruiseB}}
    \cup {Event_init_from_cruise(EventDefaults, Some(c)).value :
            c \in {CruiseA, CruiseB}}

ChildEvents ==
    {make_event_from_fishing_set(Some(FishingSet), p, {}).value : p \in RootEvents}
    \cup {Event_init_from_fishing_set(
              [EventDefaults EXCEPT !._parentEvent = Some(p)],
              Some(FishingSet)).value : p \in RootEvents}

\* the Event of a set, its parent reference cleared
OrphanEvents == {[e EXCEPT !._parentEvent = None] : e \in ChildEvents}

\* the same Events with every precision code the model field admits, and
\* with and without a start instant
EventInputs ==
    RootEvents \cup ChildEvents \cup OrphanEvents
    \cup {[e EXCEPT !._event_start_dt_p = p, !._event_end_dt_p = q] :
            e \in RootEvents \cup ChildEvents, p \in 1 .. 7,
            q \in {DayPrecision, DefaultPrecision}}
    \cup {[e EXCEPT !._event_start_dt = None] : e \in RootEvents \cup ChildEvents}

FormatInput(dt, p, tz, e) ==
    [kind |-> "format", dt |-> dt, precision |-> p, tz |-> tz, event |-> e]

FormatInputs ==
    {FormatInput(dt, p, tz, EventDefaults) :
        dt \in OptInstants, p \in Precisions, tz \in TzInputs}
    \cup {FormatInput(None, DefaultPrecision, None, e) : e \in EventInputs}

InitFormat ==
    /\ input \in FormatInputs
    /\ cruise = None
    /\ sets = << >>
    /\ pc = "direct"
    /\ setIdx = 0
    /\ catchIdx = 0
    /\ parent = None
    /\ event = None
    /\ events = {}
    /\ occurrences = {}
    /\ error = "none"
    /\ last = NoCall
    /\ firstRun = None

CallObisDatetimeStr ==
    /\ input.kind = "format"
    /\ last' = [op |-> "obis_datetime_str",
                out |-> obis_datetime_str(input.dt, input.precision, input.tz)]
    /\ UNCHANGED <<RunVars, events, occurrences>>

CallObisTimeStr ==
    /\ input.kind = "format"
    /\ last' = [op |-> "obis_time_str",
                out |-> obis_time_str(input.dt, input.precision, input.tz)]
    /\ UNCHANGED <<RunVars, events, occurrences>>

ReadEventTime ==
    /\ input.kind = "format"
    /\ last' = [op |-> "eventTime", out |-> eventTime(input.event)]
    /\ UNCHANGED <<RunVars, events, occurrences>>

ReadEventDate ==
    /\ input.kind = "format"
    /\ last' = [op |-> "eventDate", out |-> eventDate(input.event)]
    /\ UNCHANGED <<RunVars, events, occurrences>>

ReadTimezone ==
    /\ input.kind = "format"
    /\ last' = [op |-> "timezone", out |-> timezone(input.event)]
    /\ UNCHANGED <<RunVars, events, occurrences>>

NextFormat ==
    \/ CallObisDatetimeStr
    \/ CallObisTimeStr
    \/ ReadEventTime
    \/ ReadEventDate
    \/ ReadTimezone

SpecFormat == InitFormat /\ [][NextFormat]_vars

-----------------------------------------------------------------------------
(* Properties *)

HasFishing(s) == \E k \in DOMAIN s.operations : s.operations[k]

ChildEventsSaved == {e \in events : e._parentEvent # None}

\* C1 (as claimed): in a run, a catch whose Occurrence derivation fails
\* validation, with InvalidSpecies or with NoCatchData, never aborts the
\* run: no run ends on either exception.
C1_ValidationFailureNeverAborts ==
    pc = "aborted" => error \notin {"InvalidSpecies", "NoCatchData"}

\* C2: a set without fishing operation never has an Event, and when the run
\* has completed the number of child Events equals the number of sets of
\* the cruise that have at least one fishing operation.
C2_EventPerFishingSet ==
    /\ \A e \in ChildEventsSaved :
         \E i \in 1 .. setIdx :
            /\ HasFishing(sets[i])
            /\ e.eventID = e._parentEvent[1].eventID \o "-Set"
                             \o ToString(sets[i].set_number)
    /\ pc = "done" =>
         Cardinality(ChildEventsSaved)
            = Cardinality({i \in 1 .. Len(sets) : HasFishing(sets[i])})

C2_Witness ==
    /\ pc = "done"
    /\ Len(sets) = 2
    /\ \E i, j \in 1 .. 2 : HasFishing(sets[i]) /\ ~HasFishing(sets[j])
    /\ Cardinality(ChildEventsSaved) = 1

\* C3: a mixed catch never produces an Occurrence, whatever its other
\* fields: the loop of the driver passes over it without an exception, and
\* both Occurrence builders fail on it with InvalidSpecies and store nothing.
C3_MixedCatchNoOccurrence ==
    (input.kind = "builder" /\ input.catch.species.is_mixed_catch) =>
        /\ occurrences = {}
        /\ last.op = "loop_body" =>
              last.out.exc = "none" /\ last.out.value = None
        /\ last.op = "make_occurence_from_catch" =>
              last.out.exc = "InvalidSpecies" /\ last.out.db = {}
        /\ last.op = "_init_from_catch" => last.out.exc = "InvalidSpecies"

C3_Witness ==
    /\ input.kind = "builder"
    /\ input.catch.species.is_mixed_catch
    /\ input.catch.species.aphia_id # None
    /\ input.catch.total_basket_weight # 0
    /\ last.op = "make_occurence_from_catch"
    /\ last.out.exc = "InvalidSpecies"

\* the eight conditions of the meaningless-catch rule, as the claim lists them
FirstSevenNonEmpty(k) ==
    {n \in 1 .. 7 :
        \/ n = 1 /\ k.has_child_baskets
        \/ n = 2 /\ k.extrapolated_specimen_count # None
        \/ n = 3 /\ k.relative_abundance_category # None
        \/ n = 4 /\ k.total_basket_weight # 0
        \/ n = 5 /\ k.unmeasured_specimen_count # 0
        \/ n = 6 /\ k.specimens # 0
        \/ n = 7 /\ k.catch_images # 0}

AllEight(k) == FirstSevenNonEmpty(k) = {} /\ k.baskets_with_children > 0

OneOfSevenChanged(k) ==
    Cardinality(FirstSevenNonEmpty(k)) = 1 /\ k.baskets_with_children > 0

\* C4 (as claimed): for a non-mixed catch with a taxonomic id, Occurrence
\* derivation fails with NoCatchData exactly when all eight conditions hold,
\* and with a single one of the first seven changed the derivation succeeds.
C4_NoCatchDataIffAllEight ==
    (/\ input.kind = "builder"
     /\ last.op \in {"make_occurence_from_catch", "_init_from_catch"}
     /\ ~input.catch.species.is_mixed_catch
     /\ input.catch.species.aphia_id # None) =>
        /\ last.out.exc = "NoCatchData" <=> AllEight(input.catch)
        /\ OneOfSevenChanged(input.catch) => last.out.exc = "none"

\* C5: persistence is ordered: the parent of every saved child Event is
\* saved, the child Event of a set is saved while its catches are taken,
\* and the Event of every derived Occurrence is saved.
C5_SavedBeforeUse ==
    /\ \A e \in ChildEventsSaved : e._parentEvent[1] \in Roots
    /\ pc = "catches" =>
          /\ event # None
          /\ event[1] \in events
          /\ event[1].eventID = parent[1].eventID \o "-Set"
                                  \o ToString(sets[setIdx].set_number)
    /\ last.op = "loop_body" => event[1] \in events /\ parent[1] \in events
    /\ \A o \in occurrences : o._event[1] \in events

C5_Witness ==
    /\ last.op = "loop_body"
    /\ setIdx = 2
    /\ catchIdx = 2
    /\ Cardinality(ChildEventsSaved) = 2

\* C6: without an active cruise the run aborts with the RuntimeError of the
\* root-Event derivation and nothing is persisted.
C6_NoCruiseAborts ==
    cruise = None =>
        /\ events = {}
        /\ occurrences = {}
        /\ pc \in {"start", "aborted"}
        /\ pc = "aborted" =>
              /\ error = "RuntimeError"
              /\ last.op = "make_event_from_cruise"
              /\ last.out.exc = "RuntimeError"

C6_Witness == cruise = None /\ pc = "aborted" /\ error = "RuntimeError"

FailedDerivation(l) ==
    /\ l.op \in {"make_event_from_cruise", "make_event_from_fishing_set",
                 "make_occurence_from_catch"}
    /\ l.out.exc # "none"

CompleteEvent(e) ==
    /\ e.eventID # ""
    /\ e.eventType # None
    /\ e._event_start_dt # None
    /\ e._parentEvent # None => e._event_end_dt # None

\* C7: a derivation that fails leaves both tables as they were, and every
\* stored Event is one whose derivation ran to its end.
C7_FailureLeavesTables ==
    /\ [](\A e \in events : CompleteEvent(e))
    /\ [][FailedDerivation(last') =>
            (events' = events /\ occurrences' = occurrences)]_vars

C7_Witness ==
    /\ last.op = "make_occurence_from_catch"
    /\ last.out.exc = "NoCatchData"
    /\ Cardinality(events) = 2

\* the identifiers expected of the cruises and set numbers of the model
ExpectedChildID(p, n) ==
    CASE p = "2024001" /\ n = 1 -> "2024001-Set1"
      [] p = "2024001" /\ n = 7 -> "2024001-Set7"
      [] p = "2024001" /\ n = 12 -> "2024001-Set12"
      [] p = "IML-2024-01" /\ n = 1 -> "IML-2024-01-Set1"
      [] p = "IML-2024-01" /\ n = 7 -> "IML-2024-01-Set7"
      [] p = "IML-2024-01" /\ n = 12 -> "IML-2024-01-Set12"

\* C8: the eventID of a root Event is the mission number of its cruise, and
\* the eventID of the child Event of set N under parent P is "P-SetN".
C8_EventIDs ==
    input.kind = "builder" =>
        /\ (last.op \in {"make_event_from_cruise", "_init_from_cruise"}
                /\ last.out.exc = "none") =>
              last.out.value.eventID = input.cruise[1].mission_number
        /\ (last.op \in {"make_event_from_fishing_set", "_init_from_fishing_set"}
                /\ last.out.exc = "none") =>
              last.out.value.eventID
                 = ExpectedChildID(last.parent, input.my_set[1].set_number)
        /\ \A e \in Roots : e.eventID \in {"2024001", "IML-2024-01"}
        /\ \A e \in ChildEventsSaved :
              \E n \in SetNumbers :
                 e.eventID = ExpectedChildID(e._parentEvent[1].eventID, n)

C8_Witness ==
    /\ input.kind = "builder"
    /\ last.op = "make_event_from_fishing_set"
    /\ last.out.exc = "none"
    /\ last.out.value.eventID = "2024001-Set12"
    /\ last.out.value \in events

\* the shape of a string: every digit replaced by "d"
Shape(str) ==
    [i \in DOMAIN str |->
        IF \E n \in 0 .. 9 : str[i] = Digit(n) THEN "d" ELSE str[i]]

Ds(n) == [i \in 1 .. n |-> "d"]

DateShape == Ds(4) \o <<"-">> \o Ds(2) \o <<"-">> \o Ds(2)

OffsetShapes == {<<sign>> \o Ds(4) : sign \in {"+", "-"}}

ShapesOf(precision) ==
    CASE precision = 1 -> {Ds(4)}
      [] precision = 2 -> {Ds(4) \o <<"-">> \o Ds(2)}
      [] precision = 3 -> {DateShape}
      [] precision = 4 -> {DateShape \o <<"T">> \o Ds(2) \o z : z \in OffsetShapes}
      [] precision = 5 ->
            {DateShape \o <<"T">> \o Ds(2) \o <<":">> \o Ds(2) \o z :
                z \in OffsetShapes}
      [] precision = 6 ->
            {DateShape \o <<"T">> \o Ds(2) \o <<":">> \o Ds(2) \o <<":">> \o Ds(2)
                \o z : z \in OffsetShapes}
      [] precision = 7 ->
            {DateShape \o <<"T">> \o Ds(2) \o <<":">> \o Ds(2) \o <<":">> \o Ds(2)
                \o <<".">> \o Ds(6) \o z : z \in OffsetShapes}

\* C9: for an instant and a precision code 1 to 7 obis_datetime_str returns
\* a string of the shape of that code; for any other code it raises
\* ValueError.
C9_DatetimeShape ==
    (input.kind = "format" /\ last.op = "obis_datetime_str" /\ input.dt # None) =>
        IF input.precision \in 1 .. 7
            THEN /\ last.out.exc = "none"
                 /\ Shape(last.out.value) \in ShapesOf(input.precision)
            ELSE last.out.exc = "ValueError"

\* 2024-01-01T02:30:05.000123+0000 on the clock of Etc/GMT+4
C9_Witness ==
    /\ input.kind = "format"
    /\ last.op = "obis_datetime_str"
    /\ input.dt = Some(T1)
    /\ input.tz = Some("Etc/GMT+4")
    /\ input.precision = 7
    /\ last.out.exc = "none"
    /\ last.out.value =
         <<"2", "0", "2", "3", "-", "1", "2", "-", "3", "1", "T", "2", "2", ":",
           "3", "0", ":", "0", "5", ".", "0", "0", "0", "1", "2", "3", "-", "0",
           "4", "0", "0">>

\* C10 (as claimed): reading eventTime of an Event whose start precision is
\* 1, 2 or 3 does not fail and yields None; only the codes 4 to 7 yield a
\* time-of-day string.
C10_EventTimeAbsentBelowHour ==
    (input.kind = "format" /\ last.op = "eventTime") =>
        /\ input.event._event_start_dt_p \in 1 .. 3 =>
              last.out.exc = "none" /\ last.out.value = None
        /\ (last.out.exc = "none" /\ last.out.value # None) =>
              input.event._event_start_dt_p \in 4 .. 7

\* C11 (as claimed): eventDate of an Event that has a start instant renders
\* "<start>/<end>" when it has an end instant and "<start>" alone when it
\* has none, each instant formatted by obis_datetime_str with its own
\* precision code and the timezone the Event resolves to.
C11_EventDateRendering ==
    (/\ input.kind = "format"
     /\ last.op = "eventDate"
     /\ input.event._event_start_dt # None) =>
        LET e == input.event
            tz == timezone(e)
        IN  /\ tz.exc = "none"
            /\ last.out.exc = "none"
            /\ LET a == obis_datetime_str(e._event_start_dt,
                                          e._event_start_dt_p, tz.value).value
               IN  IF e._event_end_dt = None THEN last.out.value = a
                   ELSE last.out.value =
                          a \o <<"/">>
                            \o obis_datetime_str(e._event_end_dt,
                                                 e._event_end_dt_p, tz.value).value

\* C12 (as claimed): the timezone of every Event a run has produced, the
\* root Event as well as every child Event, resolves to the display
\* timezone of the cruise.
C12_TimezoneIsCruiseDisplayTz ==
    \A e \in events :
        LET tz == timezone(e)
        IN  tz.exc = "none" /\ tz.value = cruise[1].display_tz

\* no Event of the parent chain of e, e included, was initialised from a
\* cruise: the walk ends at an Event without parent
RECURSIVE NoCruiseAncestor(_)
NoCruiseAncestor(e) ==
    /\ e.andes_object.kind # "Cruise"
    /\ e._parentEvent # None => NoCruiseAncestor(e._parentEvent[1])

\* C13 (as claimed): when the timezone of an Event is resolved and the walk
\* up its parents ends at an Event without parent that was not initialised
\* from a cruise, the resolution fails with NoParentCruiseError.
C13_NoCruiseAncestorError ==
    (/\ input.kind = "format"
     /\ last.op = "timezone"
     /\ NoCruiseAncestor(input.event)) =>
        last.out.exc = "NoParentCruiseError"

\* C14: the Event table of a run holds at most one Event without parent,
\* the root made of the cruise; every other Event refers to exactly that
\* root, whose row is in the table under its own key, so every parent chain
\* has length one and ends at the root.
C14_ParentChainToRoot ==
    /\ \A x, y \in events : x.eventID = y.eventID => x = y
    /\ events # {} => Roots = {parent[1]}
    /\ \A e \in events :
         IF e._parentEvent = None
            THEN e.eventID = cruise[1].mission_number
         ELSE /\ e._parentEvent = parent
              /\ e._parentEvent[1]._parentEvent = None
              /\ e.eventID # e._parentEvent[1].eventID
              /\ \A x \in events :
                    x.eventID = e._parentEvent[1].eventID => x \in Roots

C14_Witness ==
    /\ pc = "done"
    /\ Cardinality(events) = 3
    /\ Cardinality(Roots) = 1

\* the cruise with the two corners of its bounding box exchanged
SwapBox(c) ==
    [c EXCEPT !.max_lat = c.min_lat, !.max_lng = c.min_lng,
              !.min_lat = c.max_lat, !.min_lng = c.max_lng]

\* the set with its start and end points exchanged
SwapTrack(s) ==
    [s EXCEPT !.start_latitude = s.end_latitude,
              !.start_longitude = s.end_longitude,
              !.end_latitude = s.start_latitude,
              !.end_longitude = s.start_longitude]

CruiseBuilders == {"make_event_from_cruise", "_init_from_cruise"}

SetBuilders == {"make_event_from_fishing_set", "_init_from_fishing_set"}

\* an Event builder was called on the drawn arguments and returned an Event
EventBuilt ==
    /\ input.kind = "builder"
    /\ last.op \in CruiseBuilders \cup SetBuilders
    /\ last.out.exc = "none"

\* the two corner points the last builder read
CornerA ==
    IF last.op \in CruiseBuilders
        THEN Point(input.cruise[1].max_lat, input.cruise[1].max_lng)
    ELSE Point(input.my_set[1].start_latitude, input.my_set[1].start_longitude)

CornerB ==
    IF last.op \in CruiseBuilders
        THEN Point(input.cruise[1].min_lat, input.cruise[1].min_lng)
    ELSE Point(input.my_set[1].end_latitude, input.my_set[1].end_longitude)

\* the distance the collaborator answered for them, in 1e-7 nautical mile
CornerDist ==
    IF last.op \in CruiseBuilders THEN input.cruise[1].corner_dist
    ELSE input.my_set[1].corner_dist

\* what the last builder returns when the two corners are exchanged
SwappedEvent ==
    LET e == last.out.value
    IN  CASE last.op = "make_event_from_cruise" ->
                make_event_from_cruise(Some(SwapBox(input.cruise[1])), {}).value
          [] last.op = "_init_from_cruise" ->
                Event_init_from_cruise(EventDefaults,
                                       Some(SwapBox(input.cruise[1]))).value
          [] last.op = "make_event_from_fishing_set" ->
                make_event_from_fishing_set(Some(SwapTrack(input.my_set[1])),
                                            e._parentEvent[1], {}).value
          [] last.op = "_init_from_fishing_set" ->
                Event_init_from_fishing_set(
                    [EventDefaults EXCEPT !._parentEvent = e._parentEvent],
                    Some(SwapTrack(input.my_set[1]))).value

\* m, a doubled coordinate, lies as far from a as from b
IsMidpoint(m, a, b) == m # None /\ m[1] - 2 * a = 2 * b - m[1]

\* C15: the latitude and the longitude of a derived Event are the midpoint
\* of the two corner points, and the builder returns the same latitude and
\* longitude when the two corners are exchanged.
C15_MidpointCommutes ==
    EventBuilt =>
        LET e == last.out.value
        IN  /\ IsMidpoint(e.decimalLatitude, CornerA.lat, CornerB.lat)
            /\ IsMidpoint(e.decimalLongitude, CornerA.lng, CornerB.lng)
            /\ SwappedEvent.decimalLatitude = e.decimalLatitude
            /\ SwappedEvent.decimalLongitude = e.decimalLongitude

C15_Witness ==
    /\ EventBuilt
    /\ last.op = "make_event_from_fishing_set"
    /\ CornerA = Point(450000001, -640000000)
    /\ CornerB = Point(-123456789, -639999999)
    /\ last.out.value.decimalLatitude = Some(326543212)
    /\ last.out.value.decimalLongitude = Some(-1279999999)

OccurrenceBuilderCalled ==
    /\ input.kind = "builder"
    /\ last.op \in {"make_occurence_from_catch", "_init_from_catch"}

\* C17: the checks of both Occurrence builders apply in order: a catch that
\* is mixed or has no aphia_id fails with InvalidSpecies, whether or not it
\* is meaningless too; NoCatchData is raised for a meaningless catch that
\* passed both species checks, and for no other.
C17_FirstFailingCheckDecides ==
    OccurrenceBuilderCalled =>
        LET k == input.catch
            badSpecies == k.species.is_mixed_catch \/ k.species.aphia_id = None
        IN  /\ badSpecies => last.out.exc = "InvalidSpecies"
            /\ last.out.exc = "InvalidSpecies" => badSpecies
            /\ last.out.exc = "NoCatchData" <=> (~badSpecies /\ AllEight(k))

C17_Witness ==
    /\ OccurrenceBuilderCalled
    /\ last.op = "_init_from_catch"
    /\ ~input.catch.species.is_mixed_catch
    /\ input.catch.species.aphia_id = None
    /\ AllEight(input.catch)
    /\ last.out.exc = "InvalidSpecies"

\* C18 (as claimed): every Occurrence that a builder returns has the
\* scientificNameID "urn:lsid:marinespecies.org:taxname:<aphia_id>", the
\* species' scientific name as verbatimIdentification and as scientificName,
\* the notes of the catch as occurrenceRemarks, and no associatedMedia (None).
C18_OccurrenceFields ==
    (OccurrenceBuilderCalled /\ last.out.exc = "none") =>
        LET o == last.out.value
            k == input.catch
        IN  /\ o.scientificNameID =
                  "urn:lsid:marinespecies.org:taxname:"
                      \o ToString(k.species.aphia_id[1])
            /\ o.verbatimIdentification = k.species.scientific_name
            /\ o.scientificName = k.species.scientific_name
            /\ o.occurrenceRemarks = k.notes
            /\ o.associatedMedia = None

\* C19 (as claimed): each of the two entry points of the mixed-catch
\* sub-event derivation, called with a mixed catch, raises
\* NotImplementedError; neither returns normally.
C19_MixedCatchEventUnsupported ==
    (/\ input.kind = "builder"
     /\ last.op \in {"make_event_from_mixed_catch", "_init_from_mixed_catch"}
     /\ input.catch.species.is_mixed_catch) =>
        last.out.exc = "NotImplementedError"

\* C20 (as claimed): the root Event a builder makes of a cruise has the
\* cruise's start instant at precision code 3 and, when the cruise has an
\* end instant, that end instant at precision code 3; its end is absent only
\* when the cruise has none.
C20_RootEventDates ==
    (/\ input.kind = "builder"
     /\ last.op \in CruiseBuilders
     /\ last.out.exc = "none") =>
        LET e == last.out.value
            c == input.cruise[1]
        IN  /\ e._event_start_dt = c.start_date
            /\ e._event_start_dt_p = 3
            /\ e._event_end_dt = c.end_date
            /\ c.end_date # None => e._event_end_dt_p = 3

\* C21 (as claimed): the child Event a builder makes of a set has the
\* set's max_depth_m and min_depth_m as maximumDepthInMeters and
\* minimumDepthInMeters whenever the set has them, a depth of 0 included,
\* and has none only when the set has none.
C21_DepthsCopied ==
    (/\ input.kind = "builder"
     /\ last.op \in SetBuilders
     /\ last.out.exc = "none") =>
        /\ last.out.value.maximumDepthInMeters = input.my_set[1].max_depth_m
        /\ last.out.value.minimumDepthInMeters = input.my_set[1].min_depth_m

\* C22 (as claimed): a catch that has parent baskets and passes the other
\* checks (not mixed, an aphia_id, not meaningless) yields an Occurrence from
\* either builder: the parent baskets only cause a warning.
C22_ParentBasketsOnlyWarn ==
    (/\ OccurrenceBuilderCalled
     /\ input.catch.has_parent_baskets
     /\ ~input.catch.species.is_mixed_catch
     /\ input.catch.species.aphia_id # None
     /\ ~AllEight(input.catch)) =>
        last.out.exc = "none"

\* a hollow catch: no basket of any kind, no weight, no count, no specimen,
\* no abundance category and no image
Hollow(k) ==
    /\ FirstSevenNonEmpty(k) = {}
    /\ k.baskets_with_children = 0
    /\ ~k.has_parent_baskets

\* C23 (as claimed): both Occurrence builders reject a hollow catch of a
\* non-mixed species that has an aphia_id with NoCatchData.
C23_HollowCatchRejected ==
    (/\ OccurrenceBuilderCalled
     /\ ~input.catch.species.is_mixed_catch
     /\ input.catch.species.aphia_id # None
     /\ Hollow(input.catch)) =>
        last.out.exc = "NoCatchData"

\* the step derived an Event, which the builder saved
EventDerived(l) ==
    /\ l.op \in {"make_event_from_cruise", "make_event_from_fishing_set"}
    /\ l.out.exc = "none"

\* the step derived an Occurrence, which the builder saved
OccurrenceDerived(l) ==
    /\ l.op = "loop_body"
    /\ l.out.exc = "none"
    /\ l.out.value # None

\* C24: in a run every successful derivation adds one record under an
\* identifier that no record stored before it has, and no other step
\* changes a table: no save overwrites an earlier record, and the tables
\* hold as many records as derivations have succeeded.
C24_NoSaveOverwrites ==
    [][/\ IF EventDerived(last')
            THEN /\ last'.out.value.eventID \notin {x.eventID : x \in events}
                 /\ events' = events \cup {last'.out.value}
          ELSE events' = events
       /\ IF OccurrenceDerived(last')
            THEN /\ last'.out.value[1].occurenceID
                        \notin {x.occurenceID : x \in occurrences}
                 /\ occurrences' = occurrences \cup {last'.out.value[1]}
          ELSE occurrences' = occurrences]_vars

C24_Witness ==
    /\ pc = "done"
    /\ setIdx = 2
    /\ Cardinality({e.eventID : e \in events}) = 3
    /\ last.op = "return"

\* C26: once the command has been run a second time on the same cruise, sets
\* and catches, the Event and Occurrence tables hold exactly the records,
\* field by field, that the first run left, and no key occurs twice.
C26_SecondRunSameDataset ==
    (firstRun # None /\ pc \in {"done", "aborted"}) =>
        /\ events = firstRun[1].events
        /\ occurrences = firstRun[1].occurrences
        /\ \A x, y \in events : x.eventID = y.eventID => x = y
        /\ \A x, y \in occurrences : x.occurenceID = y.occurenceID => x = y

C26_Witness ==
    /\ firstRun # None
    /\ pc = "done"
    /\ last.op = "return"
    /\ Cardinality(events) = 3
    /\ Len(input.catches[2]) > 0

=============================================================================
